---------------------------- MODULE Spec2Model ----------------------------
(***************************************************************************)
(* PRBSGenerator (libqjackaudio/include/jnoise/prbsgenerator.h): a pseudo  *)
(* random binary sequence generator doing polynomial division in GF(2) on  *)
(* a 32-bit shift register.                                                *)
(*                                                                         *)
(* A uint32_t is modelled as the set of the positions of its one bits, a   *)
(* subset of 0..31, so that every value of the 32-bit word is a value of   *)
(* the model (TLC's own integers stop at 2^31 - 1) and the width is kept:  *)
(* a left shift drops the bit that leaves position 31.                     *)
(***************************************************************************)
EXTENDS Integers, FiniteSets, Sequences, TLC

\* ------------------------------------------------------------ uint32_t

\* The width of uint32_t, the type of _stat, _poly, _mask and _hbit.
W == 32

BitPos == 0 .. (W - 1)

\* The word 0 and the word 0xFFFFFFFF.
Zero == {}
Ones == BitPos

\* The 32-bit word whose high half is hi and whose low half is lo, each
\* below 2^16: Word(\H8000, \H0057) is 0x80000057.
Word(hi, lo) ==
    {i \in BitPos : IF i < 16 THEN (lo \div 2^i) % 2 = 1
                              ELSE (hi \div 2^(i - 16)) % 2 = 1}

\* a >> 1 on uint32_t.
Shr1(a) == {i - 1 : i \in a \ {0}}

\* a << 1 on uint32_t: the bit shifted out of position 31 is lost.
Shl1(a) == {i + 1 : i \in a \ {W - 1}}

\* a ^ b, a & b and a | 1.
Xor(a, b) == (a \ b) \cup (b \ a)
And(a, b) == a \cap b
Or1(a) == a \cup {0}

\* a < b on uint32_t: the highest bit in which they differ is b's.
Less(a, b) == \E i \in b \ a : \A j \in a \ b : j < i

\* a + 1 on uint32_t (0xFFFFFFFF + 1 wraps to 0): the low run of ones is
\* cleared and the zero above it is set.
Inc(a) ==
    {i \in BitPos :
        IF \A j \in 0 .. (i - 1) : j \in a THEN i \notin a ELSE i \in a}

\* h >> 1 on int, for the loop variable of sync_back: the conversion of a
\* uint32_t to int keeps the bit pattern and the right shift of a negative int
\* is arithmetic (it copies the sign bit), as on every compiler the header is
\* built with (and as C++20 requires).
Sar1(a) == Shr1(a) \cup (a \cap {W - 1})

\* ------------------------------------------------------------ the catalogue

G7  == Word(\H0000, \H0041)
G8  == Word(\H0000, \H008E)
G15 == Word(\H0000, \H4001)
G16 == Word(\H0000, \H8016)
G23 == Word(\H0040, \H0010)
\* G24 with a tap mistyped.
G24Mistyped == Word(\H0080, \H000C)

G24 == Word(\H0080, \H000D)
G31 == Word(\H4000, \H0004)
G32 == Word(\H8000, \H0057)

Catalogue == <<G7, G8, G15, G16, G23, G24, G31, G32>>

\* ------------------------------------------------------------ the register

VARIABLES
    _stat,      \* uint32_t _stat
    _poly,      \* uint32_t _poly
    _mask,      \* uint32_t _mask
    _hbit,      \* uint32_t _hbit
    _degr,      \* int _degr
    status,     \* "ok": between calls; "aborted": an assert failed and the
                \* process was aborted; "spinning": inside sync_back's loop,
                \* which cannot end
    ret,        \* the value the last call returned (NoRet: it returned none)
    h,          \* sync_back's loop variable h, while status = "spinning"
    bits,       \* sync_back's parameter bits, while status = "spinning"
    last,       \* the last call: [op |-> its name, arg |-> its argument]
    hist,       \* which calls were made since construction: "gen" (only
                \* setPoly, setStat, step), "seeded" (also sync_forw and
                \* sync_back with a non-zero masked argument), "any"
    n,          \* the number of calls made
    outs,       \* the bits the recorded step() calls returned, oldest first
    ref         \* a register state a scenario remembers

fields == <<_stat, _poly, _mask, _hbit, _degr>>
locals == <<h, bits>>
ghost  == <<last, hist, n, outs, ref>>
vars   == <<_stat, _poly, _mask, _hbit, _degr, status, ret, h, bits,
            last, hist, n, outs, ref>>

NoRet == -1


\* ------------------------------------------------------------ the operations

\* setPoly's loop: while (_mask < _poly) { _mask = (_mask << 1) | 1; _degr += 1; }
\* (TLC passes an operator's arguments unevaluated: each loop binds the values
\* of a pass, m2 here, before the next pass reads them.)
RECURSIVE maskLoop(_, _, _)
maskLoop(m, d, p) ==
    IF Less(m, p)
    THEN CHOOSE r \in {maskLoop(m2, d + 1, p) : m2 \in {Or1(Shl1(m))}} : TRUE
    ELSE [mask |-> m, degr |-> d]

\* setPoly with _degr counted from 1.
setPolyDegrFromOne(p) ==
    LET r == maskLoop(Zero, 1, p)
    IN  [stat |-> r.mask, poly |-> p, mask |-> r.mask,
         hbit |-> Inc(Shr1(r.mask)), degr |-> r.degr]

\* setPoly with _hbit = _mask >> 1, the + 1 forgotten.
setPolyHbitNoInc(p) ==
    LET r == maskLoop(Zero, 0, p)
    IN  [stat |-> r.mask, poly |-> p, mask |-> r.mask,
         hbit |-> Shr1(r.mask), degr |-> r.degr]

\* The fields setPoly(p) leaves, p # 0.
setPoly(p) ==
    LET r == maskLoop(Zero, 0, p)
    IN  [stat |-> r.mask, poly |-> p, mask |-> r.mask,
         hbit |-> Inc(Shr1(r.mask)), degr |-> r.degr]

\* setStat without the mask.
setStatUnmasked(s, m) == s

\* The _stat setStat(stat) assigns.
setStat(s, m) == And(s, m)

\* step: bit = _stat & 1, the bit returned.
stepBit(s) == IF 0 \in s THEN 1 ELSE 0

\* step without the feedback.
stepStatNoFeedback(s, p) == Shr1(s)

\* step with the feedback on a 0 bit instead of a 1 bit.
stepStatInverted(s, p) == IF 0 \in s THEN Shr1(s) ELSE Xor(Shr1(s), p)

\* step: _stat >>= 1; if (bit) _stat ^= _poly.
stepStat(s, p) == IF stepBit(s) = 1 THEN Xor(Shr1(s), p) ELSE Shr1(s)

\* sync_forw's loop with bits never shifted: every pass reads bit 0.
RECURSIVE forwLoopNoShift(_, _, _, _, _)
forwLoopNoShift(i, d, s, p, b) ==
    IF i < d
    THEN CHOOSE r \in
             {forwLoopNoShift(i + 1, d, s2, p, b) :
                 s2 \in {IF 0 \in b THEN Xor(Shr1(s), p) ELSE Shr1(s)}} : TRUE
    ELSE s

\* sync_forw's loop, from i with _stat = s and bits = b.
RECURSIVE forwLoop(_, _, _, _, _)
forwLoop(i, d, s, p, b) ==
    IF i < d
    THEN CHOOSE r \in
             {forwLoop(i + 1, d, s2, p, b2) :
                 s2 \in {IF 0 \in b THEN Xor(Shr1(s), p) ELSE Shr1(s)},
                 b2 \in {Shr1(b)}} : TRUE
    ELSE s

\* sync_forw with one pass too few.
sync_forwShort(s, p, d, b) == forwLoop(1, d, s, p, b)

\* The _stat sync_forw(bits) leaves.
sync_forw(s, p, d, b) == forwLoop(0, d, s, p, b)

\* One pass of sync_back's loop body: if (bits & h) _stat ^= _poly; _stat <<= 1.
backBody(hh, s, p, b) == Shl1(IF And(b, hh) # Zero THEN Xor(s, p) ELSE s)

\* sync_back's loop, for (int h = _hbit; h; h >>= 1), from h = hh with
\* _stat = s. It ends when h is 0. With h = -1 (all ones) it can never end,
\* since -1 >> 1 is -1: the loop is then left here, at its head, unfinished.
RECURSIVE backLoop(_, _, _, _)
backLoop(hh, s, p, b) ==
    IF hh = Zero THEN [ends |-> TRUE, stat |-> s, h |-> hh]
    ELSE IF hh = Ones THEN [ends |-> FALSE, stat |-> s, h |-> hh]
    ELSE CHOOSE r \in
             {backLoop(h2, s2, p, b) :
                 h2 \in {Sar1(hh)}, s2 \in {backBody(hh, s, p, b)}} : TRUE

\* sync_back without _stat ^= bits after the loop.
sync_backNoXor(p, m, hb, b) ==
    LET r == backLoop(hb, Zero, p, b)
    IN  IF r.ends
        THEN [ends |-> TRUE, stat |-> And(r.stat, m), h |-> r.h]
        ELSE r

\* sync_back(bits): _stat = 0; the loop; then _stat ^= bits; _stat &= _mask.
sync_back(p, m, hb, b) ==
    LET r == backLoop(hb, Zero, p, b)
    IN  IF r.ends
        THEN [ends |-> TRUE, stat |-> And(Xor(r.stat, b), m), h |-> r.h]
        ELSE r

\* crc_in with bit = b: the bit shifted out is not fed back.
crcInBitInputOnly(s, b) == b

\* crc_in: bit = (_stat & 1) ^ b, for a bit b.
crcInBit(s, b) == (stepBit(s) + b) % 2

\* crc_in without the feedback.
crcInStatNoFeedback(s, p, b) == Shr1(s)

\* crc_in: _stat >>= 1; if (bit) _stat ^= _poly.
crcInStat(s, p, b) == IF crcInBit(s, b) = 1 THEN Xor(Shr1(s), p) ELSE Shr1(s)

\* crc_out without the shift.
crcOutStatHeld(s) == s

\* crc_out: _stat >>= 1 (the bit returned is _stat & 1, as in step).
crcOutStat(s) == Shr1(s)

\* ------------------------------------------------------------ the calls
\* Each call is one action. The asserts are compiled in (no NDEBUG): a failed
\* assert aborts the process, and no call is made after it.

\* The assert left out: the call goes on as if it had done nothing.
AbortLeftOut == status' = "ok" /\ ret' = NoRet /\ UNCHANGED <<fields, locals>>

\* assert (_poly != 0) failed.
Abort == status' = "aborted" /\ ret' = NoRet /\ UNCHANGED <<fields, locals>>

Return(v) == status' = "ok" /\ ret' = v /\ UNCHANGED locals

\* setPoly without its assert: setPoly(0) runs like any other.
SetPolyUnchecked(p) ==
    /\ status = "ok"
    /\ LET r == setPoly(p)
       IN  /\ _poly' = r.poly
           /\ _mask' = r.mask
           /\ _degr' = r.degr
           /\ _stat' = r.stat
           /\ _hbit' = r.hbit
           /\ Return(NoRet)

SetPoly(p) ==
    /\ status = "ok"
    /\ IF p = Zero THEN Abort
       ELSE LET r == setPoly(p)
            IN  /\ _poly' = r.poly
                /\ _mask' = r.mask
                /\ _degr' = r.degr
                /\ _stat' = r.stat
                /\ _hbit' = r.hbit
                /\ Return(NoRet)

\* setStat with the second assert before the assignment: a rejected value
\* is never stored.
SetStatAssertFirst(s) ==
    /\ status = "ok"
    /\ IF _poly = Zero \/ setStat(s, _mask) = Zero THEN Abort
       ELSE /\ _stat' = setStat(s, _mask)
            /\ UNCHANGED <<_poly, _mask, _hbit, _degr>>
            /\ Return(NoRet)

SetStat(s) ==
    /\ status = "ok"
    /\ IF _poly = Zero THEN Abort
       ELSE /\ _stat' = setStat(s, _mask)
            /\ UNCHANGED <<_poly, _mask, _hbit, _degr, locals>>
            /\ ret' = NoRet
            \* assert (_stat != 0), after the assignment
            /\ status' = IF _stat' # Zero THEN "ok" ELSE "aborted"

Step ==
    /\ status = "ok"
    /\ IF _poly = Zero THEN Abort
       ELSE /\ _stat' = stepStat(_stat, _poly)
            /\ UNCHANGED <<_poly, _mask, _hbit, _degr>>
            /\ Return(stepBit(_stat))

SyncForw(b) ==
    /\ status = "ok"
    /\ IF _poly = Zero THEN Abort
       ELSE /\ _stat' = sync_forw(_stat, _poly, _degr, b)
            /\ UNCHANGED <<_poly, _mask, _hbit, _degr>>
            /\ Return(NoRet)

\* sync_back with the loop run on _hbit itself, not on a copy of it.
SyncBackShiftsHbit(b) ==
    /\ status = "ok"
    /\ IF _poly = Zero THEN Abort
       ELSE LET r == sync_back(_poly, _mask, _hbit, b)
            IN  /\ _stat' = r.stat
                /\ _hbit' = r.h
                /\ UNCHANGED <<_poly, _mask, _degr>>
                /\ ret' = NoRet
                /\ IF r.ends
                   THEN status' = "ok" /\ UNCHANGED locals
                   ELSE status' = "spinning" /\ h' = r.h /\ bits' = b

SyncBack(b) ==
    /\ status = "ok"
    /\ IF _poly = Zero THEN Abort
       ELSE LET r == sync_back(_poly, _mask, _hbit, b)
            IN  /\ _stat' = r.stat
                /\ UNCHANGED <<_poly, _mask, _hbit, _degr>>
                /\ ret' = NoRet
                /\ IF r.ends
                   THEN status' = "ok" /\ UNCHANGED locals
                   ELSE status' = "spinning" /\ h' = r.h /\ bits' = b

\* One more pass of sync_back's loop, which never returns.
SyncBackSpin ==
    /\ status = "spinning"
    /\ _stat' = backBody(h, _stat, _poly, bits)
    /\ h' = Sar1(h)
    /\ UNCHANGED <<_poly, _mask, _hbit, _degr, status, ret, bits>>

CrcIn(b) ==
    /\ status = "ok"
    /\ IF _poly = Zero THEN Abort
       ELSE /\ _stat' = crcInStat(_stat, _poly, b)
            /\ UNCHANGED <<_poly, _mask, _hbit, _degr>>
            /\ Return(NoRet)

CrcOut ==
    /\ status = "ok"
    /\ IF _poly = Zero THEN Abort
       ELSE /\ _stat' = crcOutStat(_stat)
            /\ UNCHANGED <<_poly, _mask, _hbit, _degr>>
            /\ Return(stepBit(_stat))

\* ------------------------------------------------------------ any caller

\* Polynomials and arguments up to MaxDegr bits are all tried, with some of
\* full width; a caller makes at most MaxOps calls.
MaxDegr == 3
MaxOps == 4

Polys == (SUBSET (0 .. (MaxDegr - 1))) \cup {G31, G32}
Args  == (SUBSET (0 .. (MaxDegr - 1))) \cup {Ones, {W - 1}, G32}

\* The constructor initialises _stat, _poly, _mask and _degr to 0 and leaves
\* _hbit uninitialised: its value is indeterminate.
Indeterminate == {Zero, {0}, {W - 1}, Ones}

Constructed ==
    /\ _stat = Zero
    /\ _poly = Zero
    /\ _mask = Zero
    /\ _degr = 0
    /\ _hbit \in Indeterminate
    /\ status = "ok"
    /\ ret = NoRet
    /\ h = Zero
    /\ bits = Zero

Init ==
    /\ Constructed
    /\ last = [op |-> "new", arg |-> Zero]
    /\ hist = "gen"
    /\ n = 0
    /\ outs = <<>>
    /\ ref = Zero

\* The call op(arg) is noted; hv is what hist becomes if the call returns.
Note(op, arg, hv) ==
    /\ n < MaxOps
    /\ n' = n + 1
    /\ last' = [op |-> op, arg |-> arg]
    /\ hist' = IF status' = "ok" THEN hv ELSE hist
    /\ UNCHANGED <<outs, ref>>

Seeded(b) == IF And(b, _mask) = Zero THEN "any"
             ELSE IF hist = "gen" THEN "seeded" ELSE hist

Next ==
    \/ \E p \in Polys : SetPoly(p) /\ Note("setPoly", p, hist)
    \/ \E s \in Args : SetStat(s) /\ Note("setStat", s, hist)
    \/ Step /\ Note("step", Zero, hist)
    \/ \E b \in Args : SyncForw(b) /\ Note("sync_forw", b, Seeded(b))
    \/ \E b \in Args : SyncBack(b) /\ Note("sync_back", b, Seeded(b))
    \/ \E b \in 0 .. 1 : CrcIn(b) /\ Note("crc_in", Word(0, b), "any")
    \/ CrcOut /\ Note("crc_out", Zero, "any")
    \/ SyncBackSpin /\ UNCHANGED ghost

Spec == Init /\ [][Next]_vars

\* ------------------------------------------------------------ setPoly alone
\* A caller that configures the register again and again, stepping in between:
\* with every polynomial of up to MaxDegr bits, the catalogue, and the 2^k and
\* 2^(k+1) - 1 at the byte borders of the 32-bit word. ref remembers the call
\* before and the fields it left.

MaxPolyCalls == 3

ByteBorders == {k \in BitPos : k % 8 \in {0, 7}}

PolySamples ==
    ((SUBSET (0 .. (MaxDegr - 1))) \ {Zero})
        \cup {Catalogue[i] : i \in DOMAIN Catalogue}
        \cup {0 .. k : k \in ByteBorders}
        \cup {{k} : k \in ByteBorders}

SetPolyInit ==
    /\ Constructed
    /\ last = [op |-> "new", arg |-> Zero]
    /\ hist = "gen"
    /\ n = 0
    /\ outs = <<>>
    /\ ref = [op |-> "new", arg |-> Zero, fields |-> fields]

SetPolyNote(op, arg) ==
    /\ n < MaxPolyCalls
    /\ n' = n + 1
    /\ last' = [op |-> op, arg |-> arg]
    /\ ref' = [op |-> last.op, arg |-> last.arg, fields |-> fields]
    /\ UNCHANGED <<hist, outs>>

SetPolyNext ==
    \/ \E p \in PolySamples : SetPoly(p) /\ SetPolyNote("setPoly", p)
    \/ Step /\ SetPolyNote("step", Zero)

SpecSetPoly == SetPolyInit /\ [][SetPolyNext]_vars

\* ------------------------------------------------------------ sync_back, then step
\* A caller that configures the register, may seed it, calls sync_back(x) with
\* a degree-bit x and then step() degree times. outs records the bits returned;
\* ref is [ph |-> how far the caller is, x |-> the argument].

\* 0x55555555.
Alt == {i \in BitPos : i % 2 = 0}

SyncArgs == Args \cup {Alt, G31, G16}
Seeds == {Ones, {0}, Alt}

\* The bits of a sequence as a word, the first bit lowest.
FromBits(seq) == {i \in BitPos : i < Len(seq) /\ seq[i + 1] = 1}

Phase(ph) == ref' = [ref EXCEPT !.ph = ph]

Called(op, arg) == last' = [op |-> op, arg |-> arg] /\ n' = n + 1

ScenarioInit ==
    /\ Constructed
    /\ last = [op |-> "new", arg |-> Zero]
    /\ hist = "gen"
    /\ n = 0
    /\ outs = <<>>
    /\ ref = [ph |-> "new", x |-> Zero, s1 |-> Zero, y |-> <<>>]

Configure ==
    /\ ref.ph = "new"
    /\ \E p \in PolySamples : SetPoly(p) /\ Called("setPoly", p)
    /\ Phase("configured")
    /\ UNCHANGED <<hist, outs>>

Seed ==
    /\ ref.ph = "configured"
    /\ \E t \in Seeds : SetStat(t) /\ Called("setStat", t)
    /\ Phase("seeded")
    /\ UNCHANGED <<hist, outs>>

BackSync ==
    /\ ref.ph \in {"configured", "seeded"}
    /\ \E a \in SyncArgs :
          LET x == And(a, _mask)
          IN  /\ SyncBack(x)
              /\ Called("sync_back", x)
              /\ ref' = [ref EXCEPT !.ph = "synced", !.x = x]
    /\ UNCHANGED <<hist, outs>>

Replay ==
    /\ ref.ph = "synced"
    /\ Len(outs) < _degr
    /\ Step
    /\ Called("step", Zero)
    /\ outs' = Append(outs, ret')
    /\ UNCHANGED <<hist, ref>>

BackNext ==
    \/ Configure
    \/ Seed
    \/ BackSync
    \/ Replay
    \/ SyncBackSpin /\ UNCHANGED ghost

SpecSyncBack == ScenarioInit /\ [][BackNext]_vars

\* ------------------------------------------------------------ step, then sync_forw
\* A caller that configures the register, seeds it with a state s, calls
\* step() 2 * degree times, may set another state t, calls sync_forw(x) with
\* the first degree bits returned, and calls step() degree times again.
\* ref.x is the word of the first degree bits, ref.s1 the state after them,
\* ref.y the degree bits that followed; outs is recorded anew after sync_forw.

ForwSeed ==
    /\ ref.ph = "configured"
    /\ \/ \E t \in Args : SetStat(t) /\ Called("setStat", t)
       \/ SyncForw(Zero) /\ Called("sync_forw", Zero)
    /\ Phase("running")
    /\ UNCHANGED <<hist, outs>>

Run ==
    /\ ref.ph \in {"configured", "running"}
    /\ Step
    /\ Called("step", Zero)
    /\ outs' = Append(outs, ret')
    /\ ref' = [ph |-> IF Len(outs') = 2 * _degr THEN "ran" ELSE "running",
               x  |-> IF Len(outs') = _degr THEN FromBits(outs') ELSE ref.x,
               s1 |-> IF Len(outs') = _degr THEN _stat' ELSE ref.s1,
               y  |-> ref.y]
    /\ UNCHANGED hist

Disturb ==
    /\ ref.ph = "ran"
    /\ \E t \in Seeds : SetStat(t) /\ Called("setStat", t)
    /\ Phase("disturbed")
    /\ UNCHANGED <<hist, outs>>

ForwSync ==
    /\ ref.ph \in {"ran", "disturbed"}
    /\ SyncForw(ref.x)
    /\ Called("sync_forw", ref.x)
    /\ ref' = [ref EXCEPT !.ph = "synced",
                          !.y = SubSeq(outs, _degr + 1, 2 * _degr)]
    /\ outs' = <<>>
    /\ UNCHANGED hist

ForwNext ==
    \/ Configure
    \/ ForwSeed
    \/ Run
    \/ Disturb
    \/ ForwSync
    \/ Replay

SpecSyncForw == ScenarioInit /\ [][ForwNext]_vars

\* ------------------------------------------------------------ step, from reset
\* A caller that configures the register with a polynomial of the catalogue
\* and calls step() until the register is back in the reset state (_stat =
\* _mask), or 2^MaxCycleBits times. n counts the step() calls.

MaxCycleBits == 16

CycleConfigure ==
    /\ ref.ph = "new"
    /\ \E i \in DOMAIN Catalogue :
          SetPoly(Catalogue[i]) /\ last' = [op |-> "setPoly", arg |-> Catalogue[i]]
    /\ Phase("cycling")
    /\ UNCHANGED <<hist, n, outs>>

CycleStep ==
    /\ ref.ph = "cycling"
    /\ n < 2^MaxCycleBits
    /\ n = 0 \/ _stat # _mask
    /\ Step
    /\ Called("step", Zero)
    /\ UNCHANGED <<hist, outs, ref>>

CycleNext ==
    \/ CycleConfigure
    \/ CycleStep

SpecCycle == ScenarioInit /\ [][CycleNext]_vars

\* ------------------------------------------------------------ step, a whole period
\* A caller that configures the register with G7 or G8 and calls step() up to
\* MaxWindowSteps times. outs records the bits returned and ref.seen the states
\* the register was left in.

MaxWindowSteps == 256

WindowInit ==
    /\ Constructed
    /\ last = [op |-> "new", arg |-> Zero]
    /\ hist = "gen"
    /\ n = 0
    /\ outs = <<>>
    /\ ref = [ph |-> "new", seen |-> {}]

WindowConfigure ==
    /\ ref.ph = "new"
    /\ \E p \in {G7, G8} : SetPoly(p) /\ Called("setPoly", p)
    /\ Phase("cycling")
    /\ UNCHANGED <<hist, outs>>

WindowStep ==
    /\ ref.ph = "cycling"
    /\ Len(outs) < MaxWindowSteps
    /\ Step
    /\ Called("step", Zero)
    /\ outs' = Append(outs, ret')
    /\ ref' = [ref EXCEPT !.seen = @ \cup {_stat'}]
    /\ UNCHANGED hist

WindowNext ==
    \/ WindowConfigure
    \/ WindowStep

SpecWindow == WindowInit /\ [][WindowNext]_vars

\* ------------------------------------------------------------ crc_in, then crc_out
\* A caller that configures the register, may set a state, feeds up to MaxFeed
\* bits with crc_in, and then either calls crc_out() degree times (draining)
\* or feeds with crc_in the degree bits those crc_out() calls would return
\* (verifying). ref.s is the state fed from, ref.fed the bits fed, ref.twin
\* the state of a register that is stepped from ref.s once per bit fed, ref.S
\* the state after the feed; outs records the bits drained or fed back.

MaxFeed == 3

CrcInit ==
    /\ Constructed
    /\ last = [op |-> "new", arg |-> Zero]
    /\ hist = "gen"
    /\ n = 0
    /\ outs = <<>>
    /\ ref = [ph |-> "new", s |-> Zero, twin |-> Zero, fed |-> <<>>,
              S |-> Zero]

CrcConfigure ==
    /\ ref.ph = "new"
    /\ \E p \in PolySamples : SetPoly(p) /\ Called("setPoly", p)
    /\ ref' = [ref EXCEPT !.ph = "configured", !.s = _stat', !.twin = _stat']
    /\ UNCHANGED <<hist, outs>>

CrcSeed ==
    /\ ref.ph = "configured"
    /\ \/ \E t \in SyncArgs : SetStat(t) /\ Called("setStat", t)
       \/ \E b \in SyncArgs : SyncForw(b) /\ Called("sync_forw", b)
    /\ ref' = [ref EXCEPT !.ph = "seeded", !.s = _stat', !.twin = _stat']
    /\ UNCHANGED <<hist, outs>>

Feed ==
    /\ ref.ph \in {"configured", "seeded", "fed"}
    /\ Len(ref.fed) < MaxFeed
    /\ \E b \in 0 .. 1 :
          /\ CrcIn(b)
          /\ Called("crc_in", Word(0, b))
          /\ ref' = [ref EXCEPT !.ph = "fed",
                                !.fed = Append(ref.fed, b),
                                !.twin = stepStat(ref.twin, _poly)]
    /\ UNCHANGED <<hist, outs>>

\* The bit the (k+1)-th of k+1 crc_out() calls from state s returns.
RECURSIVE crcOutBit(_, _)
crcOutBit(s, k) ==
    IF k = 0 THEN stepBit(s)
    ELSE CHOOSE r \in {crcOutBit(s2, k - 1) : s2 \in {crcOutStat(s)}} : TRUE

Drain ==
    /\ ref.ph \in {"configured", "seeded", "fed", "draining"}
    /\ ref.ph = "draining" => Len(outs) < _degr
    /\ CrcOut
    /\ Called("crc_out", Zero)
    /\ outs' = IF ref.ph = "draining" THEN Append(outs, ret') ELSE <<ret'>>
    /\ ref' = IF ref.ph = "draining" THEN ref
              ELSE [ref EXCEPT !.ph = "draining", !.S = _stat]
    /\ UNCHANGED hist

Verify ==
    /\ ref.ph \in {"configured", "seeded", "fed", "verifying"}
    /\ ref.ph = "verifying" => Len(outs) < _degr
    /\ LET S == IF ref.ph = "verifying" THEN ref.S ELSE _stat
           k == IF ref.ph = "verifying" THEN Len(outs) ELSE 0
           r == crcOutBit(S, k)
       IN  /\ CrcIn(r)
           /\ Called("crc_in", Word(0, r))
           /\ outs' = IF k = 0 THEN <<r>> ELSE Append(outs, r)
           /\ ref' = [ref EXCEPT !.ph = "verifying", !.S = S]
    /\ UNCHANGED hist

CrcNext ==
    \/ CrcConfigure
    \/ CrcSeed
    \/ Feed
    \/ Drain
    \/ Verify

SpecCrc == CrcInit /\ [][CrcNext]_vars

\* ------------------------------------------------------------ step, from two states
\* A caller that configures the register, puts it in a state a, calls step(),
\* puts it in a state b and calls step() again. ref.a and ref.b are the two
\* states, ref.a1 the state the first step() left.

PairInit ==
    /\ Constructed
    /\ last = [op |-> "new", arg |-> Zero]
    /\ hist = "gen"
    /\ n = 0
    /\ outs = <<>>
    /\ ref = [ph |-> "new", a |-> Zero, a1 |-> Zero, b |-> Zero]

PairConfigure ==
    /\ ref.ph = "new"
    /\ \E p \in PolySamples : SetPoly(p) /\ Called("setPoly", p)
    /\ Phase("configured")
    /\ UNCHANGED <<hist, outs>>

\* setStat reaches every state but 0, sync_forw(0) reaches 0.
Put ==
    /\ ref.ph \in {"configured", "first"}
    /\ \/ \E t \in SyncArgs : SetStat(t) /\ Called("setStat", t)
       \/ SyncForw(Zero) /\ Called("sync_forw", Zero)
    /\ Phase(IF ref.ph = "configured" THEN "a" ELSE "b")
    /\ UNCHANGED <<hist, outs>>

PairStep ==
    /\ ref.ph \in {"configured", "a", "first", "b"}
    /\ Step
    /\ Called("step", Zero)
    /\ outs' = Append(outs, ret')
    /\ ref' = IF ref.ph \in {"configured", "a"}
              THEN [ref EXCEPT !.ph = "first", !.a = _stat, !.a1 = _stat']
              ELSE [ref EXCEPT !.ph = "second", !.b = _stat]
    /\ UNCHANGED hist

PairNext ==
    \/ PairConfigure
    \/ Put
    \/ PairStep

SpecPair == PairInit /\ [][PairNext]_vars

\* ------------------------------------------------------------ what is checked

\* The word 2^d - 1, for d in 0 .. 32: the d low bits set.
Pow2Minus1(d) == {i \in BitPos : i < d}

Configured == _poly # Zero

\* C6, as stated: in every state reached after a successful setPoly by
\* successful calls of any operation (crc_in, crc_out, sync_forw and
\* sync_back included), state != 0.
C6_NonZeroAfterAnyCall == (status = "ok" /\ Configured) => _stat # Zero

\* C6, amended: in every state reached after a successful setPoly by successful
\* calls of setPoly, setStat, step, and sync_forw and sync_back with a non-zero
\* masked argument, state != 0.
C6_NonZeroWhileSeeded ==
    (status = "ok" /\ Configured /\ hist # "any") => _stat # Zero

C6_Witness ==
    /\ status = "ok"
    /\ hist = "seeded"
    /\ last.op = "step"
    /\ _stat # Zero
    /\ _stat # _mask

\* C7: in every reachable state, whatever 32-bit arguments the calls were
\* given, state & mask == state.
C7_StateWithinMask == And(_stat, _mask) = _stat

\* A call was given an argument with bits above the mask, and returned.
C7_Witness ==
    /\ status = "ok"
    /\ last.op \in {"setStat", "sync_forw", "sync_back"}
    /\ And(last.arg, _mask) # last.arg
    /\ _mask # Ones
    /\ _stat # Zero

\* C9: in every reachable state, the freshly constructed one included,
\* mask == 2^degree - 1.
C9_MaskIsPow2Minus1 == _mask = Pow2Minus1(_degr)

C9_Witness ==
    /\ status = "ok"
    /\ _degr = W
    /\ _mask = Ones
    /\ last.op = "crc_out"

\* C10: while polynomial == 0, every call of setStat, step, sync_forw,
\* sync_back, crc_in or crc_out fails (the process is aborted) and changes no
\* field.
C10_UnconfiguredUseFails ==
    [][(/\ status = "ok"
        /\ ~Configured
        /\ last'.op \in {"setStat", "step", "sync_forw", "sync_back",
                         "crc_in", "crc_out"})
       => (status' = "aborted" /\ UNCHANGED fields)]_vars

C10_Witness ==
    /\ status = "aborted"
    /\ ~Configured
    /\ last.op = "sync_back"
    /\ last.arg # Zero
    /\ _hbit # Zero

\* The number of bits of p # 0: one more than the position of its highest bit.
BitLength(p) == 1 + (CHOOSE i \in p : \A j \in p : j <= i)

\* C8: setPoly(p), p # 0, returns, whatever the register held, with
\* polynomial == p, degree == the bit length of p, mask == 2^degree - 1 (the
\* smallest all-ones value >= p), highBit == (mask >> 1) + 1 (the bit
\* degree - 1) and state == mask; a second call with the same p leaves the
\* same fields; setPoly(0x41) gives degree 7 and mask 0x7F.
C8_SetPolyDerives ==
    last.op = "setPoly" =>
        /\ status = "ok"
        /\ _poly = last.arg
        /\ _degr = BitLength(last.arg)
        /\ _mask = Pow2Minus1(_degr)
        /\ ~Less(_mask, _poly)
        /\ Less(Pow2Minus1(_degr - 1), _poly)
        /\ _hbit = Inc(Shr1(_mask))
        /\ _hbit = {_degr - 1}
        /\ _stat = _mask
        /\ (ref.op = "setPoly" /\ ref.arg = last.arg) => ref.fields = fields
        /\ last.arg = G7 => (_degr = 7 /\ _mask = Word(0, \H7F))

\* setPoly(0x41) called twice in a row.
C8_Witness ==
    /\ last.op = "setPoly"
    /\ last.arg = G7
    /\ ref.op = "setPoly"
    /\ ref.arg = G7
    /\ status = "ok"

\* C1: sync_back(x) with a degree-bit x, from any prior state, returns, and
\* the degree step() calls after it return the bits of x, bit 0 first.
C1_SyncBackThenSteps ==
    ref.ph = "synced" =>
        /\ status = "ok"
        /\ Len(outs) = _degr => FromBits(outs) = ref.x

\* The same for the degrees below 32, where sync_back's loop ends.
SyncBackThenStepsBelow32 ==
    (ref.ph = "synced" /\ _degr < W) =>
        /\ status = "ok"
        /\ Len(outs) = _degr => FromBits(outs) = ref.x

\* C2, as stated: the degree step() calls after sync_forw(x) return the bits
\* of x, bit 0 first.
C2_SyncForwThenSteps ==
    (ref.ph = "synced" /\ Len(outs) = _degr) => FromBits(outs) = ref.x

\* C2, amended: the degree step() calls after sync_forw(x) return the degree
\* bits that follow x in the generator's output: those a generator returns
\* next after it has returned the bits of x.
C2_SyncForwThenNextBits ==
    (ref.ph = "synced" /\ Len(outs) = _degr) => outs = ref.y

C2_Witness ==
    /\ ref.ph = "synced"
    /\ Len(outs) = _degr
    /\ _degr = W
    /\ FromBits(outs) # ref.x

\* C3: if degree step() calls from a state s return the bits of x and end in
\* s', then sync_forw(x), from whatever state, ends in s'.
C3_SyncForwReachesStateAfterX ==
    (ref.ph = "synced" /\ last.op = "sync_forw") =>
        (status = "ok" /\ _stat = ref.s1)

\* sync_forw was called in another state than s'.
C3_Witness ==
    /\ ref.ph = "synced"
    /\ last.op = "sync_forw"
    /\ _stat = ref.s1
    /\ _stat # Zero
    /\ _degr = W - 1

\* ---- step() taken many times at once, for the periods no run can count.
\* step is linear over GF(2): the state it leaves from a ^ b is the xor of
\* the states it leaves from a and from b. Such a map is given by the states
\* it sends the single bits to, [i |-> the image of the word with bit i
\* alone]; StepMap is step's, read off stepStat.

StepMap(p) == [i \in BitPos |-> stepStat({i}, p)]

\* The image of the word v: the xor of the images of its bits.
Apply(L, v) == {b \in BitPos : Cardinality({i \in v : b \in L[i]}) % 2 = 1}

\* L applied twice.
Twice(L) == [i \in BitPos |-> Apply(L, L[i])]

\* <<step, step^2, step^4, ...>>, extended by k more doublings.
RECURSIVE Doublings(_, _)
Doublings(T, k) ==
    IF k = 0 THEN T
    ELSE CHOOSE r \in
             {Doublings(T2, k - 1) : T2 \in {Append(T, Twice(T[Len(T)]))}} :
             TRUE

\* The doublings of each polynomial of the catalogue: Powers[i][k + 1] is
\* step called 2^k times.
Powers ==
    [i \in DOMAIN Catalogue |-> Doublings(<<StepMap(Catalogue[i])>>, W - 1)]

\* The state after N calls of step() from v, N a 32-bit word: one doubling
\* for each bit of N, from bit k on.
RECURSIVE StepTimes(_, _, _, _)
StepTimes(T, N, k, v) ==
    IF k = W THEN v
    ELSE CHOOSE r \in
             {StepTimes(T, N, k + 1, v2) :
                 v2 \in {IF k \in N THEN Apply(T[k + 1], v) ELSE v}} : TRUE

\* ---- the numbers 2^d - 1 and their prime factors.

\* 2^d - 1 as a number, d <= 31, and a number below 2^31 as a word.
MersenneNumber(d) == 2^(d - 1) + (2^(d - 1) - 1)
ToWord(m) == {i \in 0 .. (W - 2) : (m \div 2^i) % 2 = 1}

IsPrime(q) == q > 1 /\ \A k \in 2 .. 46340 : k * k > q \/ q % k # 0

\* m with every factor q taken out of it.
RECURSIVE DivideOut(_, _)
DivideOut(m, q) == IF m % q = 0 THEN DivideOut(m \div q, q) ELSE m

\* m with every factor in qs taken out of it.
RECURSIVE DivideOutAll(_, _)
DivideOutAll(m, qs) ==
    IF qs = {} THEN m
    ELSE LET q == CHOOSE x \in qs : TRUE
         IN  DivideOutAll(DivideOut(m, q), qs \ {q})

\* The primes that divide 2^d - 1, for the degrees of the catalogue.
PrimeFactors ==
    <<{127}, {3, 5, 17}, {7, 31, 151}, {3, 5, 17, 257}, {47, 178481},
      {3, 5, 7, 13, 17, 241}, {2147483647}, {3, 5, 17, 257, 65537}>>

\* qs are the primes that divide 2^d - 1. For d = 32 the number is
\* (2^16 - 1) * (2^16 + 1), beyond TLC's integers: each factor is taken apart.
FactorsAreRight(d, qs) ==
    /\ \A q \in qs : IsPrime(q)
    /\ IF d < W
       THEN /\ \A q \in qs : MersenneNumber(d) % q = 0
            /\ DivideOutAll(MersenneNumber(d), qs) = 1
       ELSE /\ \A q \in qs : 65535 % q = 0 \/ 65537 % q = 0
            /\ DivideOutAll(65535, qs) = 1
            /\ DivideOutAll(65537, qs) = 1

\* (2^d - 1) / q as a word, q a prime factor. For d = 32 and q dividing
\* 2^16 - 1 it is c * (2^16 + 1) with c = (2^16 - 1) / q, the word with both
\* halves c; for q = 2^16 + 1 it is 2^16 - 1.
Cofactor(d, q) ==
    IF d < W THEN ToWord(MersenneNumber(d) \div q)
    ELSE IF 65535 % q = 0 THEN Word(65535 \div q, 65535 \div q)
    ELSE Word(0, 65535)

\* From the reset state of polynomial i of the catalogue, of degree d, step()
\* first returns to the reset state at call 2^d - 1: it is back there after
\* 2^d - 1 calls, so the first return divides 2^d - 1; and it is not back
\* after (2^d - 1) / q calls for any prime q, so the first return is no
\* proper divisor.
FirstReturnIsMaximal(i) ==
    LET d == BitLength(Catalogue[i])
        reset == Pow2Minus1(d)
    IN  /\ FactorsAreRight(d, PrimeFactors[i])
        /\ StepTimes(Powers[i], Pow2Minus1(d), 0, reset) = reset
        /\ \A q \in PrimeFactors[i] :
              StepTimes(Powers[i], Cofactor(d, q), 0, reset) # reset

MaximalInCatalogue == [i \in DOMAIN Catalogue |-> FirstReturnIsMaximal(i)]

CatalogueIndex(p) == CHOOSE i \in DOMAIN Catalogue : Catalogue[i] = p

IsPowerOfTwo(m) == \E k \in 0 .. (W - 2) : m = 2^k
Log2(m) == CHOOSE k \in 0 .. (W - 2) : m = 2^k

\* C4: for each polynomial of the catalogue, of degree d, the step() calls
\* from the reset state first return to it at call 2^d - 1. Counted call by
\* call up to 2^MaxCycleBits calls: no return before call 2^d - 1, and the
\* return at it. Beyond, by calls taken many at once (FirstReturnIsMaximal),
\* which agree with the calls counted wherever both are made.
C4_PeriodIsMaximal ==
    ref.ph = "cycling" =>
        /\ status = "ok"
        /\ (n >= 1 /\ _stat = _mask) => (_degr < W - 1 /\ n = 2^_degr - 1)
        /\ (_degr < W - 1 /\ n = 2^_degr - 1) => _stat = _mask
        /\ MaximalInCatalogue[CatalogueIndex(_poly)]
        /\ IsPowerOfTwo(n) =>
              StepTimes(Powers[CatalogueIndex(_poly)], {Log2(n)}, 0, _mask)
                  = _stat

\* The run of G16 is back at the reset state at call 65535 = 2^16 - 1.
C4_Witness ==
    /\ ref.ph = "cycling"
    /\ _poly = G16
    /\ n = 65535
    /\ _stat = _mask

\* The window of d bits of the cyclic sequence seq that starts at bit j.
Window(seq, j, d) ==
    {i \in 0 .. (d - 1) : seq[((j - 1 + i) % Len(seq)) + 1] = 1}

\* C5: after setPoly(G8), degree == 8, mask == 0xFF and state == 0xFF; in the
\* next 255 step() calls the register takes each of the 255 non-zero 8-bit
\* values exactly once, and the 255 windows of 8 bits of the output are the
\* 255 non-zero values, each once; the state is 0xFF again after call 255,
\* and call 256 returns what call 1 returned.
C5_G8Scenario ==
    (ref.ph = "cycling" /\ _poly = G8) =>
        /\ _degr = 8
        /\ _mask = Word(0, \HFF)
        /\ Len(outs) = 0 => _stat = Word(0, \HFF)
        /\ Len(outs) <= 255 =>
              /\ Cardinality(ref.seen) = Len(outs)
              /\ ref.seen \subseteq (SUBSET (0 .. 7)) \ {Zero}
        /\ Len(outs) = 255 =>
              /\ _stat = Word(0, \HFF)
              /\ ref.seen = (SUBSET (0 .. 7)) \ {Zero}
              /\ {Window(outs, j, 8) : j \in 1 .. 255}
                     = (SUBSET (0 .. 7)) \ {Zero}
        /\ Len(outs) = 256 => outs[256] = outs[1]

C5_Witness ==
    /\ ref.ph = "cycling"
    /\ _poly = G8
    /\ Len(outs) = 256
    /\ Cardinality(ref.seen) = 255

\* ------------------------------------------------------------ setStat

\* A call of op was made in this step.
Calls(op) == n' = n + 1 /\ last'.op = op

\* C11, as stated: in a configured register setStat(s) with (s & mask) == 0
\* fails and does not leave the register holding state 0; with
\* (s & mask) != 0 it returns with state == s & mask.
C11_SetStatRejectsZero ==
    [][(status = "ok" /\ Configured /\ Calls("setStat")) =>
          IF And(last'.arg, _mask) = Zero
          THEN status' = "aborted" /\ _stat' # Zero
          ELSE status' = "ok" /\ _stat' = And(last'.arg, _mask)]_vars

\* C11, amended: in a configured register setStat(s) with (s & mask) == 0
\* fails, after it has assigned: the register holds state 0 when the assert
\* fails, and polynomial, mask, degree and highBit are as before; with
\* (s & mask) != 0 it returns with state == s & mask.
C11_SetStatAssignsThenAsserts ==
    [][(status = "ok" /\ Configured /\ Calls("setStat")) =>
          /\ UNCHANGED <<_poly, _mask, _hbit, _degr>>
          /\ IF And(last'.arg, _mask) = Zero
             THEN status' = "aborted" /\ _stat' = Zero
             ELSE status' = "ok" /\ _stat' = And(last'.arg, _mask)]_vars

\* setStat failed on a non-zero argument that masks to 0.
C11_Witness ==
    /\ Configured
    /\ last.op = "setStat"
    /\ last.arg # Zero
    /\ And(last.arg, _mask) = Zero
    /\ status = "aborted"
    /\ _stat = Zero

\* ------------------------------------------------------------ setPoly(0)

\* C12: setPoly(0) fails and changes no field, whether a polynomial is set or
\* not; and no call of any operation takes a register with polynomial != 0
\* to one with polynomial == 0.
C12_SetPolyZeroRejected ==
    [][/\ (status = "ok" /\ Calls("setPoly") /\ last'.arg = Zero) =>
              (status' = "aborted" /\ UNCHANGED fields)
       /\ Configured => Configured']_vars

\* setPoly(0) was called on a configured register that had been stepped.
C12_Witness ==
    /\ Configured
    /\ last.op = "setPoly"
    /\ last.arg = Zero
    /\ status = "aborted"
    /\ _stat # _mask

\* ------------------------------------------------------------ the frame

\* C13: every step of every call leaves polynomial, mask, degree and highBit
\* as they were, unless it is a setPoly call that returns.
C13_OnlySetPolyConfigures ==
    [][\/ UNCHANGED <<_poly, _mask, _hbit, _degr>>
       \/ (status = "ok" /\ Calls("setPoly") /\ status' = "ok")]_vars

\* sync_back returned on a register configured with a three-bit polynomial.
C13_Witness ==
    /\ Configured
    /\ last.op = "sync_back"
    /\ last.arg # Zero
    /\ status = "ok"
    /\ _hbit = {_degr - 1}
    /\ _degr = MaxDegr

\* ------------------------------------------------------------ crc_in(0) and crc_out

\* The state crc_in leaves after the bits of seq, fed from state s.
RECURSIVE FeedAll(_, _, _)
FeedAll(s, p, seq) ==
    IF seq = <<>> THEN s
    ELSE CHOOSE r \in {FeedAll(s2, p, Tail(seq)) :
                          s2 \in {crcInStat(s, p, Head(seq))}} : TRUE

AllZero(seq) == \A i \in DOMAIN seq : seq[i] = 0

\* C14: after n crc_in(0) calls from a state s the register is in the state n
\* step() calls from s leave; the degree crc_out() calls that follow a feed
\* return the bits of the state the feed left, bit 0 first; and that state is
\* a function of the polynomial, s and the bits fed.
C14_ZeroFeedIsStepping ==
    /\ (ref.ph = "fed" /\ AllZero(ref.fed)) => _stat = ref.twin
    /\ ref.ph = "fed" => _stat = FeedAll(ref.s, _poly, ref.fed)
    /\ (ref.ph = "draining" /\ Len(outs) = _degr) =>
          (status = "ok" /\ FromBits(outs) = ref.S)

\* Three zero bits were fed to a degree-32 register and drained.
C14_Witness ==
    /\ ref.ph = "draining"
    /\ Len(outs) = _degr
    /\ _poly = G32
    /\ ref.fed = <<0, 0, 0>>
    /\ ref.S = ref.twin
    /\ ref.S # ref.s
    /\ FromBits(outs) # Zero

\* ------------------------------------------------------------ the remainder checks

\* C20: if S is the state a feed left and r_0 .. r_(degree-1) are the bits
\* degree crc_out() calls from S would return, then after crc_in(r_0), ...,
\* crc_in(r_(degree-1)) from S state == 0; and after degree crc_out() calls
\* from S state == 0.
C20_RemainderCancels ==
    (ref.ph \in {"verifying", "draining"} /\ Len(outs) = _degr) =>
        (status = "ok" /\ _stat = Zero)

\* The remainder of a one bit fed to G16, not zero, was fed back.
C20_Witness ==
    /\ ref.ph = "verifying"
    /\ Len(outs) = _degr
    /\ _poly = G16
    /\ ref.fed # <<>>
    /\ ~AllZero(ref.fed)
    /\ ref.S # Zero
    /\ FromBits(outs) = ref.S
    /\ _stat = Zero

\* ------------------------------------------------------------ the loops end

\* C15: on a configured register, whatever its polynomial (degree 32
\* included) and whatever the argument, sync_forw and sync_back return: no
\* call is left in its loop, and none fails.
C15_SyncLoopsEnd ==
    (Configured /\ last.op \in {"sync_forw", "sync_back"}) => status = "ok"

\* ------------------------------------------------------------ construction

\* C16: before the first call, state, polynomial, mask, degree and highBit
\* are all zero.
C16_ConstructedAllZero ==
    n = 0 =>
        /\ _stat = Zero
        /\ _poly = Zero
        /\ _mask = Zero
        /\ _degr = 0
        /\ _hbit = Zero

\* ------------------------------------------------------------ the zero state

BitOps == {"step", "crc_in", "crc_out"}

\* C17, as stated: on a configured register with state == 0, every call of
\* step(), crc_in(0), crc_in(1) and crc_out() leaves state == 0, and returns
\* no 1 bit.
C17_ZeroAbsorbsAllBitOps ==
    [][(/\ status = "ok"
        /\ Configured
        /\ _stat = Zero
        /\ \E op \in BitOps : Calls(op))
       => (status' = "ok" /\ _stat' = Zero /\ ret' # 1)]_vars

\* C17, amended: on a configured register with state == 0, every call of
\* step(), crc_in(0) and crc_out() leaves state == 0, and step() and
\* crc_out() return 0; crc_in(1) leaves state == polynomial, which is not 0.
C17_ZeroAbsorbsButCrcInOne ==
    [][(/\ status = "ok"
        /\ Configured
        /\ _stat = Zero
        /\ \E op \in BitOps : Calls(op))
       => /\ status' = "ok"
          /\ ret' # 1
          /\ _stat' = IF last'.op = "crc_in" /\ last'.arg = {0}
                      THEN _poly ELSE Zero]_vars

\* crc_in(1) on a register of degree 32 left state == polynomial: the state
\* before was 0, the only state from which crc_in(1) leaves a state with
\* bit 31 set being one whose shifted-out bit is 0 and whose other bits are 0.
C17_Witness ==
    /\ status = "ok"
    /\ last.op = "crc_in"
    /\ last.arg = {0}
    /\ (W - 1) \in _poly
    /\ _stat = _poly

\* ------------------------------------------------------------ never zero

GenOps == {"setPoly", "setStat", "step", "sync_forw", "sync_back"}

\* C19: a call of setPoly, setStat, step, or of sync_forw or sync_back with
\* (x & mask) != 0, that returns, made on a register that is unconfigured or
\* has state != 0, leaves a configured register with state != 0. So no
\* sequence of such calls reaches state 0.
C19_GenCallsKeepNonZero ==
    [][(/\ status = "ok"
        /\ ~Configured \/ _stat # Zero
        /\ \E op \in GenOps : Calls(op)
        /\ last'.op \in {"sync_forw", "sync_back"} =>
               And(last'.arg, _mask) # Zero
        /\ status' = "ok")
       => (Configured' /\ _stat' # Zero)]_vars

\* Only such calls were made, the last a sync_back(x) with bits of x above
\* the mask, and the register is in neither its reset state nor state x.
C19_Witness ==
    /\ status = "ok"
    /\ hist = "seeded"
    /\ last.op = "sync_back"
    /\ And(last.arg, _mask) # last.arg
    /\ _stat # _mask
    /\ _stat # And(last.arg, _mask)
    /\ _stat # Zero

\* ------------------------------------------------------------ step is one to one

\* Degrees up to MaxPermBits have all their states stepped at once.
MaxPermBits == 8

States(d) == SUBSET (0 .. (d - 1))

\* The state before a step() call that left state s1 on a register with
\* polynomial p and highBit hb: bit degree - 1 of s1 is the bit shifted out.
Unstep(s1, p, hb) ==
    IF And(s1, hb) # Zero THEN Or1(Shl1(Xor(s1, p))) ELSE Shl1(s1)

\* s comes back to itself by step() calls, within k more calls from state t.
RECURSIVE Returns(_, _, _, _)
Returns(s, t, p, k) ==
    k > 0 /\ \E t2 \in {stepStat(t, p)} :
                t2 = s \/ Returns(s, t2, p, k - 1)

\* C18: two different states within mask never step to the same state; the
\* state before a step is found from the state after it, bit degree - 1 of
\* which is the bit shifted out and returned; step() maps the 2^degree
\* states onto themselves, and every state comes back to itself.
C18_StepIsOneToOne ==
    /\ ref.ph = "second" =>
          /\ status = "ok"
          /\ ref.a # ref.b => ref.a1 # _stat
          /\ Unstep(_stat, _poly, _hbit) = ref.b
          /\ (outs[Len(outs)] = 1) = (And(_stat, _hbit) # Zero)
    /\ (ref.ph = "configured" /\ _degr <= MaxPermBits) =>
          {stepStat(s, _poly) : s \in States(_degr)} = States(_degr)
    /\ (ref.ph = "configured" /\ _degr <= MaxDegr) =>
          \A s \in States(_degr) : Returns(s, s, _poly, 2^_degr)

\* Two states of a degree-32 register that differ in bit 0 alone were
\* stepped, one of them state 0.
C18_Witness ==
    /\ ref.ph = "second"
    /\ _degr = W
    /\ ref.a = Zero
    /\ ref.b = {0}
    /\ ref.a1 # _stat


=============================================================================
